---- MODULE Spec2Model ----
(***************************************************************************)
(* Logical-plan layer of the lazy query engine                              *)
(* (polars/src/lazy/logical_plan/mod.rs).                                   *)
(*                                                                          *)
(* A LogicalPlan is an immutable tree; LogicalPlanBuilder wraps exactly one *)
(* plan and every builder step consumes the builder and yields a new one.   *)
(* The state of the model is the plan held by the builder, whether the      *)
(* process is still building / has panicked / has called build(), and a     *)
(* record of what the last step did.                                        *)
(*                                                                          *)
(* Strings that are rendered are sequences of tokens; a field name is a     *)
(* TLA+ string so that format!("{}_right", name) is real concatenation.     *)
(***************************************************************************)
EXTENDS Integers, Sequences, FiniteSets, TLC

VARIABLES lp, status, built, hist, last

vars == <<lp, status, built, hist, last>>

-----------------------------------------------------------------------------
(* Bounds *)

\* longest chain of builder steps explored by Spec
MaxSteps == 2

-----------------------------------------------------------------------------
(* Generic helpers *)

Range(s) == {s[i] : i \in 1..Len(s)}

\* all orderings of a finite set, as sequences
Orderings(S) ==
  {s \in [1..Cardinality(S) -> S] : \A i, j \in 1..Cardinality(S) : i # j => s[i] # s[j]}

DistinctNames(s) == \A i, j \in 1..Len(s) : i # j => s[i].name # s[j].name

\* t occurs in s as a contiguous block
IsSubstring(t, s) ==
  \E k \in 0..(Len(s) - Len(t)) : \A i \in 1..Len(t) : s[k + i] = t[i]

-----------------------------------------------------------------------------
(* Schema / Field (arrow::datatypes), by contract *)

Field(n, t, nl) == [name |-> n, data_type |-> t, nullable |-> nl]

HasField(s, n) == \E i \in 1..Len(s) : s[i].name = n

\* Schema::field_with_name: the first field carrying the name (Err when absent,
\* which callers test with HasField)
field_with_name(s, n) ==
  s[CHOOSE i \in 1..Len(s) : s[i].name = n /\ \A j \in 1..(i - 1) : s[j].name # n]

\* Schema::try_merge over one more schema: a field whose name is already in the
\* merged schema must be identical to it (else the merge fails), and is then
\* kept once; a new name is appended.
MergeConflict(a, b) ==
  \E i \in 1..Len(a), j \in 1..Len(b) : a[i].name = b[j].name /\ a[i] # b[j]

RECURSIVE MergeInto(_, _, _)
MergeInto(merged, s, i) ==
  IF i > Len(s) THEN merged
  ELSE MergeInto(IF HasField(merged, s[i].name) THEN merged ELSE Append(merged, s[i]),
                 s, i + 1)

\* Schema::try_merge(&[schema1, schema2]); callers test TryMergeFails first
TryMergeFails(s1, s2) ==
  MergeConflict(s1, s1) \/ MergeConflict(s1, s2) \/ MergeConflict(s2, s2)

try_merge(s1, s2) == MergeInto(MergeInto(<<>>, s1, 1), s2, 1)

-----------------------------------------------------------------------------
(* Expr (lazy::dsl), by contract: only what schema derivation and rendering   *)
(* need: the column an expression reads and the name of its output.          *)

Col(n) == [kind |-> "Column", name |-> n, out |-> n]
Alias(n, a) == [kind |-> "Alias", name |-> n, out |-> a]
AggMin(n) == [kind |-> "AggMin", name |-> n, out |-> n \o "_min"]
Gt(n) == [kind |-> "BinaryExpr", name |-> n, out |-> n]

\* Expr::to_field succeeds iff the referenced column is in the schema
Resolves(e, s) == HasField(s, e.name)

to_field(e, s) ==
  Field(e.out, field_with_name(s, e.name).data_type, field_with_name(s, e.name).nullable)

\* {:?} of an expression: one token
ExprDebug(e) == e.kind \o "(" \o e.name \o "," \o e.out \o ")"

\* utils::expressions_to_schema fails (it returns a bare Schema, so failure is a
\* panic) when an expression does not resolve or two outputs share a name
ExpressionsFail(exprs, s) ==
  \/ \E i \in 1..Len(exprs) : ~Resolves(exprs[i], s)
  \/ \E i, j \in 1..Len(exprs) : i # j /\ exprs[i].out = exprs[j].out

expressions_to_schema(exprs, s) == [i \in 1..Len(exprs) |-> to_field(exprs[i], s)]

-----------------------------------------------------------------------------
(* LogicalPlan: one record shape per variant of the enum *)

JoinType == {"Left", "Inner", "Outer"}

NoPlan == [kind |-> "None"]

CsvScan(path, s) == [kind |-> "CsvScan", path |-> path, schema |-> s]

DataFrameScan(s) == [kind |-> "DataFrameScan", schema |-> s]

Selection(input, predicate) ==
  [kind |-> "Selection", input |-> input, predicate |-> predicate]

Projection(expr, input, s) ==
  [kind |-> "Projection", expr |-> expr, input |-> input, schema |-> s]

SortNode(input, column, reverse) ==
  [kind |-> "Sort", input |-> input, column |-> column, reverse |-> reverse]

Aggregate(input, keys, aggs, s) ==
  [kind |-> "Aggregate", input |-> input, keys |-> keys, aggs |-> aggs, schema |-> s]

JoinNode(input_left, input_right, s, how, left_on, right_on) ==
  [kind |-> "Join", input_left |-> input_left, input_right |-> input_right,
   schema |-> s, how |-> how, left_on |-> left_on, right_on |-> right_on]

\* LogicalPlan::schema: Selection and Sort delegate to their input, every other
\* node returns the schema stored in it
RECURSIVE schema(_)
\* variant: the Sort arm keeps only the sort column
schema_sort_column_only(p) ==
  IF p.kind = "Selection" THEN schema(p.input)
  ELSE IF p.kind = "Sort"
    THEN SelectSeq(schema(p.input), LAMBDA f : f.name = p.column)
  ELSE p.schema

schema(p) ==
  IF p.kind \in {"Selection", "Sort"} THEN schema(p.input) ELSE p.schema

\* the input subtrees of a node
Inputs(p) ==
  IF p.kind \in {"Selection", "Projection", "Sort", "Aggregate"} THEN {p.input}
  ELSE IF p.kind = "Join" THEN {p.input_left, p.input_right}
  ELSE {}

\* every node of the tree rooted at p, p included
RECURSIVE Nodes(_)
Nodes(p) ==
  {p} \cup (IF p.kind \in {"Selection", "Projection", "Sort", "Aggregate"}
              THEN Nodes(p.input)
            ELSE IF p.kind = "Join"
              THEN Nodes(p.input_left) \cup Nodes(p.input_right)
            ELSE {})

Take(s, n) == SubSeq(s, 1, IF Len(s) < n THEN Len(s) ELSE n)

DebugList(exprs) == [i \in 1..Len(exprs) |-> ExprDebug(exprs[i])]

\* impl fmt::Debug for LogicalPlan: the written string as a token sequence
RECURSIVE fmt(_)
fmt(p) ==
  CASE p.kind = "Selection" ->
         <<"Filter\n\t", ExprDebug(p.predicate), " ">> \o fmt(p.input)
    [] p.kind = "CsvScan" -> <<"CSVScan ", p.path>>
    [] p.kind = "DataFrameScan" ->
         <<"TABLE: ">> \o Take([i \in 1..Len(p.schema) |-> p.schema[i].name], 4)
    [] p.kind = "Projection" ->
         <<"SELECT ">> \o DebugList(p.expr) \o <<" \nFROM\n">> \o fmt(p.input)
    [] p.kind = "Sort" -> <<"Sort\n\t", p.column, "\n">> \o fmt(p.input)
    [] p.kind = "Aggregate" ->
         <<"Aggregate\n\t">> \o DebugList(p.aggs) \o <<" BY ">> \o p.keys
    [] p.kind = "Join" ->
         <<"JOIN (">> \o fmt(p.input_left) \o <<") WITH (">> \o fmt(p.input_right)
           \o <<") ON (left: ", p.left_on, " right: ", p.right_on, ")">>

-----------------------------------------------------------------------------
(* Join schema: the loop of LogicalPlanBuilder::join over an FnvHashSet<Field> *)

RightField(f) == Field(f.name \o "_right", f.data_type, f.nullable)

\* variant: the collision test looks at the name only
SetContainsName(set, f) == \E g \in set : g.name = f.name

\* set.contains(f): Field hashes and compares by (name, type, nullability)
SetContains(set, f) == f \in set

\* one record per iteration of the loop over schema_right.fields(): the set
\* before the iteration, the right field, and the field that was inserted
RECURSIVE JoinLoop(_, _, _)
JoinLoop(set, right, i) ==
  IF i > Len(right) THEN <<>>
  ELSE LET f == right[i]
           ins == IF SetContains(set, f) THEN RightField(f) ELSE f
       IN <<[before |-> set, f |-> f, inserted |-> ins]>>
            \o JoinLoop(set \cup {ins}, right, i + 1)

\* the set after both loops
JoinSet(left, right) ==
  Range(left) \cup {JoinLoop(Range(left), right, 1)[i].inserted : i \in 1..Len(right)}

\* Schema::new(set.into_iter().collect()): the fields in the iteration order of
\* the hash set, which is fixed by the hashes and not by insertion order
JoinSchemas(left, right) == Orderings(JoinSet(left, right))

-----------------------------------------------------------------------------
(* LogicalPlanBuilder *)

Step(op, outcome, exprs, keys, trace) ==
  [op |-> op, outcome |-> outcome, exprs |-> exprs, keys |-> keys, trace |-> trace]

Building == status = "building" /\ Len(hist) < MaxSteps

\* a step that returned the builder around the new plan
Returns(plan, step) ==
  /\ lp' = plan
  /\ hist' = Append(hist, lp)
  /\ last' = step
  /\ UNCHANGED <<status, built>>

\* a step that hit unwrap() on an Err: the thread panics, nothing is returned
Panics(step) ==
  /\ status' = "panicked"
  /\ last' = step
  /\ UNCHANGED <<lp, built, hist>>

\* LogicalPlanBuilder::from_existing_df: the scan node snapshots df.schema()
from_existing_df(s) == DataFrameScan(s)

ProjectSchemaFails(expr, p) == ExpressionsFail(expr, schema(p))

\* variant: the projected columns in input-column order under their input names
ProjectNodeInputOrder(expr, p) ==
  Projection(expr, p,
             SelectSeq(schema(p), LAMBDA f : \E i \in 1..Len(expr) : expr[i].name = f.name))

ProjectNode(expr, p) == Projection(expr, p, expressions_to_schema(expr, schema(p)))

project(expr) ==
  /\ Building
  /\ IF ProjectSchemaFails(expr, lp)
       THEN Panics(Step("project", "panic", expr, <<>>, <<>>))
       ELSE Returns(ProjectNode(expr, lp), Step("project", "ok", expr, <<>>, <<>>))

FilterNode(predicate, p) == Selection(p, predicate)

filter(predicate) ==
  /\ Building
  /\ Returns(FilterNode(predicate, lp), Step("filter", "ok", <<predicate>>, <<>>, <<>>))

\* keys.iter().map(|name| current_schema.field_with_name(name).unwrap().clone())
KeysResolve(keys, s) == \A i \in 1..Len(keys) : HasField(s, keys[i])

KeyFields(keys, s) == [i \in 1..Len(keys) |-> field_with_name(s, keys[i])]

\* what groupby does with its arguments on plan p: "panic" at either unwrap(),
\* "ok" otherwise
GroupbyOutcome(keys, aggs, p) ==
  IF ~KeysResolve(keys, schema(p)) THEN "panic"
  ELSE IF ExpressionsFail(aggs, schema(p)) THEN "panic"
  ELSE IF TryMergeFails(KeyFields(keys, schema(p)), expressions_to_schema(aggs, schema(p)))
    THEN "panic"
  ELSE "ok"

\* variant: the aggregates-schema is merged before the keys-schema
GroupbyNodeAggsFirst(keys, aggs, p) ==
  Aggregate(p, keys, aggs,
            try_merge(expressions_to_schema(aggs, schema(p)), KeyFields(keys, schema(p))))

GroupbyNode(keys, aggs, p) ==
  Aggregate(p, keys, aggs,
            try_merge(KeyFields(keys, schema(p)), expressions_to_schema(aggs, schema(p))))

groupby(keys, aggs) ==
  /\ Building
  /\ IF GroupbyOutcome(keys, aggs, lp) = "ok"
       THEN Returns(GroupbyNode(keys, aggs, lp), Step("groupby", "ok", aggs, keys, <<>>))
       ELSE Panics(Step("groupby", GroupbyOutcome(keys, aggs, lp), aggs, keys, <<>>))

BuildResult(p) == p

build ==
  /\ status = "building"
  /\ status' = "built"
  /\ built' = BuildResult(lp)
  /\ last' = Step("build", "ok", <<>>, <<>>, <<>>)
  /\ UNCHANGED <<lp, hist>>

\* variant: a sort on top of a sort replaces it instead of stacking
SortPlanReplaces(by_column, reverse, p) ==
  IF p.kind = "Sort" THEN SortNode(p.input, by_column, reverse)
  ELSE SortNode(p, by_column, reverse)

SortPlan(by_column, reverse, p) == SortNode(p, by_column, reverse)

sort(by_column, reverse) ==
  /\ Building
  /\ Returns(SortPlan(by_column, reverse, lp), Step("sort", "ok", <<>>, <<by_column>>, <<>>))

JoinPlan(p, other, s, how, left_on, right_on) ==
  JoinNode(p, other, s, how, left_on, right_on)

join(other, how, left_on, right_on) ==
  /\ Building
  /\ \E s \in JoinSchemas(schema(lp), schema(other)) :
       Returns(JoinPlan(lp, other, s, how, left_on, right_on),
               Step("join", "ok", <<>>, <<left_on, right_on>>,
                    JoinLoop(Range(schema(lp)), schema(other), 1)))

-----------------------------------------------------------------------------
(* Spec: chains of builder steps over small argument sets *)

Days == Field("days", "Int32", TRUE)
Temp == Field("temp", "Float64", TRUE)

ChainSchemas == {<<Days, Temp>>, <<Days>>}

ChainPlans ==
  {from_existing_df(s) : s \in ChainSchemas} \cup {CsvScan("iris.csv", <<Days, Temp>>)}

ChainPredicates == {Gt("days"), Gt("missing")}

ChainColumns == {"days", "missing"}

ChainExprs == {<<Col("temp")>>, <<Alias("temp", "x"), Col("days")>>, <<Col("missing")>>}

ChainKeys == {<<"days">>, <<"missing">>}

ChainAggs == {<<>>, <<AggMin("temp")>>}

ChainOthers ==
  {from_existing_df(<<Days>>), FilterNode(Gt("days"), from_existing_df(<<Days>>))}

Init ==
  /\ lp \in ChainPlans
  /\ status = "building"
  /\ built = NoPlan
  /\ hist = <<>>
  /\ last = Step("from", "ok", <<>>, <<>>, <<>>)

Project == \E expr \in ChainExprs : project(expr)

Filter == \E predicate \in ChainPredicates : filter(predicate)

Groupby == \E keys \in ChainKeys, aggs \in ChainAggs : groupby(keys, aggs)

Sort == \E by_column \in ChainColumns, reverse \in BOOLEAN : sort(by_column, reverse)

Join == \E other \in ChainOthers, how \in JoinType : join(other, how, "days", "days")

Build == build

Next == Project \/ Filter \/ Groupby \/ Sort \/ Join \/ Build

Spec == Init /\ [][Next]_vars

-----------------------------------------------------------------------------
(* SpecJoin: one join of two scans, over every pair of small schemas *)

DataTypes == {"Int32", "Float64"}

JoinNames == {"days", "temp", "days_right"}

FieldsOver(names) == {Field(n, t, nl) : n \in names, t \in DataTypes, nl \in BOOLEAN}

\* the schemas of one or two fields with distinct names
SchemasOver(names) ==
  {<<f>> : f \in FieldsOver(names)}
    \cup {p \in FieldsOver(names) \X FieldsOver(names) : p[1].name # p[2].name}

Rain == Field("rain", "Float64", TRUE)

\* every small schema, and the right frame of test_lazy_logical_plan_join
JoinInputs == SchemasOver(JoinNames) \cup {<<Days, Rain>>}

InitJoin ==
  /\ lp \in {from_existing_df(s) : s \in JoinInputs}
  /\ status = "building"
  /\ built = NoPlan
  /\ hist = <<>>
  /\ last = Step("from", "ok", <<>>, <<>>, <<>>)

JoinScans ==
  /\ hist = <<>>
  /\ \E s \in JoinInputs, how \in JoinType :
       join(from_existing_df(s), how, "days", "days")

NextJoin == JoinScans \/ Build

SpecJoin == InitJoin /\ [][NextJoin]_vars

-----------------------------------------------------------------------------
(* SpecSchema: one project or groupby on a scan, a filtered scan or a sorted *)
(* scan, over every small schema and every short argument list               *)

SchemaNames == {"days", "temp", "temp_min"}

ColumnNames == SchemaNames \cup {"missing"}

\* lists of one or two elements of S
Lists(S) == {<<x>> : x \in S} \cup (S \X S)

SchemaExprs ==
  {Col(n) : n \in ColumnNames} \cup {Alias("temp", a) : a \in {"x", "days"}}

SchemaAggs == {<<>>} \cup Lists({AggMin("temp"), AggMin("days")})

SchemaPlans ==
  LET scans == {from_existing_df(s) : s \in SchemasOver(SchemaNames)}
  IN scans
       \cup {FilterNode(predicate, p) : predicate \in ChainPredicates, p \in scans}
       \cup {SortPlan("missing", TRUE, p) : p \in scans}

InitSchema ==
  /\ lp \in SchemaPlans
  /\ status = "building"
  /\ built = NoPlan
  /\ hist = <<>>
  /\ last = Step("from", "ok", <<>>, <<>>, <<>>)

ProjectOnce == hist = <<>> /\ \E expr \in Lists(SchemaExprs) : project(expr)

GroupbyOnce ==
  hist = <<>> /\ \E keys \in Lists(ColumnNames), aggs \in SchemaAggs : groupby(keys, aggs)

NextSchema == ProjectOnce \/ GroupbyOnce \/ Build

SpecSchema == InitSchema /\ [][NextSchema]_vars

-----------------------------------------------------------------------------
(* Properties of join (SpecJoin) *)

Joined == last.op = "join" /\ lp.kind = "Join"

LeftSchema == schema(lp.input_left)

RightSchema == schema(lp.input_right)

Renamed(f) == [name |-> f.name \o "_right", data_type |-> f.data_type, nullable |-> f.nullable]

\* the fields present when the i-th right field is reached
PresentBefore(i) == Range(LeftSchema) \cup {last.trace[j].inserted : j \in 1..(i - 1)}

\* C1: the Join schema lists the left fields in left-schema order, then the
\* right fields (renamed or not) in right-schema order.
C1_LeftThenRight ==
  Joined =>
    schema(lp) = LeftSchema \o [i \in 1..Len(RightSchema) |-> last.trace[i].inserted]

\* C2: every left field is in the Join schema unchanged; a right field is
\* inserted as "<name>_right" with its type and nullability exactly when the
\* identical (name, type, nullability) field is already present, and a right
\* field that shares only its name with a present field keeps its name.
C2_RenameOnIdenticalField ==
  Joined =>
    /\ \A f \in Range(LeftSchema) : f \in Range(schema(lp))
    /\ Len(last.trace) = Len(RightSchema)
    /\ \A i \in 1..Len(RightSchema) :
         LET f == RightSchema[i]
             ins == last.trace[i].inserted
         IN /\ last.trace[i].before = PresentBefore(i)
            /\ ins \in Range(schema(lp))
            /\ (ins = Renamed(f)) <=> (f \in PresentBefore(i))
            /\ (ins = f) <=> (f \notin PresentBefore(i))

\* a join where one right field was renamed and another, sharing only its name
\* with a left field, was inserted under its own name
C2_Witness ==
  /\ Joined
  /\ \E i \in 1..Len(RightSchema) :
       RightSchema[i] \in PresentBefore(i) /\ last.trace[i].inserted = Renamed(RightSchema[i])
  /\ \E i \in 1..Len(RightSchema) :
       /\ RightSchema[i] \notin PresentBefore(i)
       /\ \E g \in PresentBefore(i) : g.name = RightSchema[i].name
       /\ last.trace[i].inserted = RightSchema[i]

\* C9: when both input schemas have pairwise distinct field names, so has the
\* Join schema.
C9_JoinNamesDistinct ==
  (Joined /\ DistinctNames(LeftSchema) /\ DistinctNames(RightSchema))
    => DistinctNames(schema(lp))

\* C10: the Join schema has exactly as many fields as the left and the right
\* schema together.
C10_JoinKeepsEveryField ==
  Joined => Len(schema(lp)) = Len(LeftSchema) + Len(RightSchema)

-----------------------------------------------------------------------------
(* Properties of project and groupby (SpecSchema) *)

\* the plan the last step was applied to
StepInput == IF last.outcome = "ok" /\ hist # <<>> THEN hist[Len(hist)] ELSE lp

\* the schema stored in the scan at the bottom of the plan the step was applied to
ScanSchema ==
  IF StepInput.kind \in {"Selection", "Sort"} THEN StepInput.input.schema
  ELSE StepInput.schema

ColumnOf(s, n) == CHOOSE f \in Range(s) : f.name = n

KeyAbsent == \E i \in 1..Len(last.keys) : \A f \in Range(ScanSchema) : f.name # last.keys[i]

\* a key and an aggregate output that share a name but not type and nullability
KeyAggConflict ==
  \E i \in 1..Len(last.keys), j \in 1..Len(last.exprs) :
    /\ last.exprs[j].out = last.keys[i]
    /\ \/ ColumnOf(ScanSchema, last.keys[i]).data_type
            # ColumnOf(ScanSchema, last.exprs[j].name).data_type
       \/ ColumnOf(ScanSchema, last.keys[i]).nullable
            # ColumnOf(ScanSchema, last.exprs[j].name).nullable

AllResolve ==
  /\ ~KeyAbsent
  /\ \A j \in 1..Len(last.exprs) : \E f \in Range(ScanSchema) : f.name = last.exprs[j].name

\* C3: groupby with a key that is not in the input schema returns UnknownField
\* to the caller, and returns SchemaConflict when the keys-schema and the
\* aggregates-schema do not merge; the process does not abort and no Aggregate
\* node is produced.
C3_GroupbyReturnsErrors ==
  last.op = "groupby" =>
    /\ KeyAbsent =>
         last.outcome = "UnknownField" /\ status # "panicked" /\ lp.kind # "Aggregate"
    /\ (AllResolve /\ KeyAggConflict) =>
         last.outcome = "SchemaConflict" /\ status # "panicked" /\ lp.kind # "Aggregate"

NoRepeat(s) == \A i, j \in 1..Len(s) : i # j => s[i] # s[j]

AggOutputs == [j \in 1..Len(last.exprs) |-> last.exprs[j].out]

GroupedOk == last.op = "groupby" /\ last.outcome = "ok" /\ lp.kind = "Aggregate"

NoKeyAggCollision ==
  \A i \in 1..Len(last.keys), j \in 1..Len(last.exprs) : last.exprs[j].out # last.keys[i]

\* the key fields in key-list order, then the aggregate fields in
\* aggregate-list order
KeysThenAggs ==
  [i \in 1..Len(last.keys) |-> ColumnOf(ScanSchema, last.keys[i])]
    \o [j \in 1..Len(last.exprs) |->
          [name |-> last.exprs[j].out,
           data_type |-> ColumnOf(ScanSchema, last.exprs[j].name).data_type,
           nullable |-> ColumnOf(ScanSchema, last.exprs[j].name).nullable]]

C6_ProjectionSchema ==
  (last.op = "project" /\ last.outcome = "ok") =>
    /\ lp.kind = "Projection"
    /\ Len(schema(lp)) = Len(last.exprs)
    /\ \A i \in 1..Len(last.exprs) :
         LET e == last.exprs[i]
         IN /\ schema(lp)[i].name = (IF e.kind = "Alias" THEN e.out ELSE e.name)
            /\ schema(lp)[i].data_type = ColumnOf(ScanSchema, e.name).data_type
            /\ schema(lp)[i].nullable = ColumnOf(ScanSchema, e.name).nullable

\* scan [days, temp] -> filter on a column that does not exist ->
\* project [temp.alias("x"), days] has schema [x, days]
C6_Witness ==
  /\ last.op = "project" /\ last.outcome = "ok"
  /\ lp.input.kind = "Selection" /\ lp.input.predicate = Gt("missing")
  /\ [i \in 1..Len(lp.input.input.schema) |-> lp.input.input.schema[i].name] = <<"days", "temp">>
  /\ last.exprs = <<Alias("temp", "x"), Col("days")>>
  /\ [i \in 1..Len(schema(lp)) |-> schema(lp)[i].name] = <<"x", "days">>

-----------------------------------------------------------------------------
(* Properties of chains of builder steps (Spec) *)

\* the plan the builder held after i - 1 steps; the current one for Len(hist) + 1
PlanAt(i) == IF i <= Len(hist) THEN hist[i] ELSE lp

\* the plan reached from p by following input (input_left of a Join) n times
RECURSIVE Descend(_, _)
Descend(p, n) ==
  IF n = 0 THEN p
  ELSE IF p.kind = "Join" THEN Descend(p.input_left, n - 1)
  ELSE IF p.kind \in {"Selection", "Projection", "Sort", "Aggregate"}
    THEN Descend(p.input, n - 1)
  ELSE NoPlan

\* C4: filter and sort steps leave schema() as it was: whenever every step
\* since plan P was a filter or a sort, the builder's plan has P's schema,
\* whatever column the predicate or the sort names.
C4_FilterSortKeepSchema ==
  \A i \in 1..Len(hist) :
    (\A j \in (i + 1)..(Len(hist) + 1) : PlanAt(j).kind \in {"Selection", "Sort"})
      => schema(lp) = schema(hist[i])

\* a sort on a missing column on top of a filter on a missing column, on top
\* of a plan whose schema is [days, temp]
C4_Witness ==
  /\ Len(hist) = 2
  /\ lp.kind = "Sort" /\ lp.column = "missing"
  /\ lp.input.kind = "Selection" /\ lp.input.predicate = Gt("missing")
  /\ schema(hist[1]) = <<Days, Temp>>
  /\ schema(lp) = <<Days, Temp>>

\* C7: the rendering of every node that has an input contains the rendering
\* of each of its inputs, and a Join's rendering contains both key names.
C7_RenderingContainsInputs ==
  \A n \in Nodes(lp) :
    /\ \A c \in Inputs(n) : IsSubstring(fmt(c), fmt(n))
    /\ n.kind = "Join" => IsSubstring(<<n.left_on>>, fmt(n)) /\ IsSubstring(<<n.right_on>>, fmt(n))

\* C8: every plan the builder held is, unchanged, the subtree of the current
\* plan that many inputs down, with the schema it had; and build() returns the
\* plan of the last step.
C8_StepsKeepInput ==
  /\ \A i \in 1..Len(hist) :
       /\ Descend(lp, Len(hist) + 1 - i) = hist[i]
       /\ schema(Descend(lp, Len(hist) + 1 - i)) = schema(hist[i])
  /\ status = "built" => built = lp

\* two steps of different kinds, then build()
C8_Witness ==
  /\ status = "built"
  /\ Len(hist) = 2
  /\ lp.kind = "Join" /\ lp.input_left.kind = "Sort"
  /\ built = lp

====
